---- MODULE Spec2Model ----
(***************************************************************************)
(* A model of statesman: the canonical hashing of configuration sections   *)
(* (utils/config_utils.py), the file checks (models/state.py,              *)
(* utils/file_utils.py) and the step engine Statesman.needs_run / run      *)
(* (core/base.py).                                                         *)
(*                                                                         *)
(* Two specifications share the module.  HashSpec builds configuration     *)
(* trees, reorders or perturbs a copy and hashes both: it settles the      *)
(* claims about the pure function hash_config_section.  Spec is the step   *)
(* engine: one Statesman instance, its working directory, its config and   *)
(* its state file, with the environment editing files and the config.      *)
(***************************************************************************)
EXTENDS Integers, Sequences, FiniteSets, TLC

VARIABLES
    tree,            \* HashSpec: a configuration tree (the section handed to hash_config_section)
    tree2,           \* HashSpec: a second tree derived from tree (reordered / one float changed)
    edit,            \* HashSpec: how tree2 was derived: "none" | "reorder" | "float"
    fa, fb,          \* HashSpec: the float put into tree / tree2 by the float edit
    digest,          \* HashSpec: hash_config_section(tree), taken after every change
    digest2          \* HashSpec: hash_config_section(tree2), taken after every change

hvars == <<tree, tree2, edit, fa, fb, digest, digest2>>

VARIABLES
    desc,            \* Spec: the step class (input_files, output_files, dependent_sections)
    files,           \* Spec: the files of the working directory and the config file
    clock,           \* Spec: the time a write stamps on a file
    config,          \* Spec: self.config, the loaded configuration
    previous_states, \* Spec: self.previous_states, section name -> digest
    state_file,      \* Spec: the content of .statesman_state.yaml
    last,            \* Spec: the last run(): its force and how it ended; NoRun after any
                     \*       change from outside (a file, the config)
    scenario,        \* ScenarioSpec: how far the run / edit config / re-run scenario has
                     \*       got; "off" in the other specifications
    save,            \* SaveSpec: a save_state call in progress on the state file, and
                     \*       what a reader of the file last saw; idle in the others
    duo              \* PairSpec: two step instances that share the working directory:
                     \*       which are constructed, what each holds in memory and what
                     \*       each last committed; idle in the others

svars == <<desc, files, clock, config, previous_states, state_file, last, scenario, save,
          duo>>

vars == <<hvars, svars>>

(***************************************************************************)
(* Bounds of the model.                                                    *)
(***************************************************************************)
MaxNodes == 3        \* map entries / list items in one configuration tree
MaxFloatNodes == 2   \* the same, for the trees in which one float is varied
MaxTime == 2         \* modification times are 1..MaxTime

(***************************************************************************)
(* Configuration trees.  A Python scalar is [t, n, s]: its type, its       *)
(* number (ints; floats in units of 1e-11) and its text (strs).  A node is *)
(* [kind, sc, kids]: a scalar, or a map / list whose kids are, in          *)
(* insertion order, [key, val] pairs (a list item has the key NoKey).      *)
(***************************************************************************)
IntS(n)   == [t |-> "int",   n |-> n, s |-> ""]
StrS(s)   == [t |-> "str",   n |-> 0, s |-> s]
FloatS(n) == [t |-> "float", n |-> n, s |-> ""]
NoKey     == [t |-> "none",  n |-> 0, s |-> ""]

Leaf(sc)      == [kind |-> "scalar", sc |-> sc,    kids |-> <<>>]
MapNode(kids) == [kind |-> "map",    sc |-> NoKey, kids |-> kids]
ListNode(kids) == [kind |-> "list",  sc |-> NoKey, kids |-> kids]
EmptyMap      == MapNode(<<>>)

(* Floats are scaled integers: FloatUnit sub-units make one unit of the    *)
(* tenth decimal place (1e-10), so 1 is 1e-11.                             *)
FloatUnit == 10

(* round(d, 10): to the nearest multiple of 1e-10, an exact tie going to   *)
(* the even multiple (Python's round).                                     *)
Round10(n) ==
    LET lo == (n \div FloatUnit) * FloatUnit
        r  == n - lo
    IN  IF 2 * r < FloatUnit THEN lo
        ELSE IF 2 * r > FloatUnit THEN lo + FloatUnit
        ELSE IF (lo \div FloatUnit) % 2 = 0 THEN lo ELSE lo + FloatUnit

(* str(k) for the keys of the model: the decimal text of an int, the text  *)
(* of a str.                                                               *)
Digits == <<"0", "1", "2", "3">>

Str(k) ==
    IF k.t = "int" THEN Digits[k.n + 1] ELSE k.s

(* The order of Python str comparison (code points) on the key texts of    *)
(* the model: digits sort before lower-case letters.                       *)
KeyTexts == <<"0", "1", "2", "3", "a", "b", "c", "x">>

Rank(s) == CHOOSE i \in 1..Len(KeyTexts) : KeyTexts[i] = s

(***************************************************************************)
(* sort_dict_recursive.  A raised ValueError is the node ErrorNode.        *)
(***************************************************************************)
ErrorNode == [kind |-> "error", sc |-> NoKey, kids |-> <<>>]

AnyError(kids) == \E i \in 1..Len(kids) : kids[i].val.kind = "error"

HasFloatKey(d) == \E i \in 1..Len(d.kids) : d.kids[i].key.t = "float"

(* new_d[k] = v on an insertion-ordered dict: an existing key keeps its    *)
(* place and takes the new value, a new key is appended.                   *)
DictSet(items, k, v) ==
    IF \E i \in 1..Len(items) : items[i].key = k
    THEN [i \in 1..Len(items) |->
            IF items[i].key = k THEN [key |-> k, val |-> v] ELSE items[i]]
    ELSE Append(items, [key |-> k, val |-> v])

(* sorted(new_d.items()): insertion sort on the key text (the keys of a    *)
(* dict are distinct, so the values are never compared).                   *)
RECURSIVE InsertSorted(_, _)
InsertSorted(items, e) ==
    IF items = <<>> THEN <<e>>
    ELSE IF Rank(e.key.s) < Rank(Head(items).key.s) THEN <<e>> \o items
    ELSE <<Head(items)>> \o InsertSorted(Tail(items), e)

RECURSIVE SortItems(_)
SortItems(items) ==
    IF items = <<>> THEN <<>>
    ELSE InsertSorted(SortItems(Tail(items)), Head(items))

RECURSIVE sort_dict_recursive(_)
RECURSIVE NewD(_, _)
(* A ValueError raised while a value is canonicalized leaves the loop at   *)
(* once, also when a later item with the same key text would overwrite it. *)
ValueRaises(kids) ==
    \E i \in 1..Len(kids) : sort_dict_recursive(kids[i].val).kind = "error"

(* for k, v in d.items(): k = str(k); new_d[k] = sort_dict_recursive(v)    *)
NewD(kids, acc) ==
    IF kids = <<>> THEN acc
    ELSE NewD(Tail(kids),
              DictSet(acc, StrS(Str(Head(kids).key)),
                      sort_dict_recursive(Head(kids).val)))

sort_dict_recursive(d) ==
    IF d.kind = "map" THEN
        IF HasFloatKey(d) \/ ValueRaises(d.kids) THEN ErrorNode
        ELSE LET new_d  == NewD(d.kids, <<>>)
                 sorted == SortItems(new_d)
                 out    == [i \in 1..Len(sorted) |->
                              [key |-> sorted[i].key,
                               val |-> sort_dict_recursive(sorted[i].val)]]
             IN  IF AnyError(out) THEN ErrorNode ELSE MapNode(out)
    ELSE IF d.kind = "list" THEN
        LET out == [i \in 1..Len(d.kids) |->
                      [key |-> NoKey, val |-> sort_dict_recursive(d.kids[i].val)]]
        IN  IF AnyError(out) THEN ErrorNode ELSE ListNode(out)
    ELSE IF d.kind = "scalar" /\ d.sc.t = "float"
        THEN Leaf(FloatS(Round10(d.sc.n)))
    ELSE d

(***************************************************************************)
(* hash_config_section: the YAML text of the canonical tree, as its        *)
(* sequence of tokens, stands for its SHA-256 digest (the dump writes      *)
(* every key, every scalar with its type, and the nesting; SHA-256 is      *)
(* taken to be collision free).  A raised ValueError is [ok |-> FALSE].    *)
(***************************************************************************)
Tok(s) == [t |-> s, n |-> 0, s |-> ""]

RECURSIVE Dump(_)
RECURSIVE DumpKids(_)
DumpKids(kids) ==
    IF kids = <<>> THEN <<>>
    ELSE <<Head(kids).key>> \o Dump(Head(kids).val) \o DumpKids(Tail(kids))

Dump(d) ==
    IF d.kind = "map" THEN <<Tok("{")>> \o DumpKids(d.kids) \o <<Tok("}")>>
    ELSE IF d.kind = "list" THEN <<Tok("[")>> \o DumpKids(d.kids) \o <<Tok("]")>>
    ELSE <<d.sc>>

NoDigest == [ok |-> FALSE, h |-> <<>>]

hash_config_section_NoError(section) ==
    [ok |-> TRUE, h |-> Dump(sort_dict_recursive(section))]

hash_config_section(section) ==
    LET sorted_section == sort_dict_recursive(section)
    IN  IF sorted_section.kind = "error" THEN NoDigest
        ELSE [ok |-> TRUE, h |-> Dump(sorted_section)]

(***************************************************************************)
(* The step classes.  ManagedFile is base.py's model; newer_than is "none" *)
(* (None), "config" or the name of another path.                           *)
(***************************************************************************)
ManagedFile(name, non_empty, newer_than) ==
    [name |-> name, non_empty |-> non_empty, newer_than |-> newer_than]

Statesman(input_files, output_files, dependent_sections) ==
    [input_files |-> input_files, output_files |-> output_files,
     dependent_sections |-> dependent_sections]

(* examples/mesh_demo.py: no inputs, one output, one section.              *)
MeshStep == Statesman(<<>>, <<"out1">>, <<"geom">>)
(* tests/test_statesman.py: one input newer than the config.               *)
TestStep == Statesman(<<ManagedFile("in1", TRUE, "config")>>, <<"out1">>, <<"geom">>)
(* A step with two dependent sections.                                     *)
TwoSectionStep == Statesman(<<>>, <<"out1">>, <<"geom", "mesh">>)
(* Two inputs, one newer than another path, one that may be empty.         *)
FanInStep ==
    Statesman(<<ManagedFile("in1", TRUE, "ref"), ManagedFile("in2", FALSE, "none")>>,
              <<"out1">>, <<>>)
(* One input, two outputs.                                                 *)
FanOutStep == Statesman(<<ManagedFile("in1", TRUE, "none")>>, <<"out1", "out2">>, <<>>)

Steps == {MeshStep, TestStep, TwoSectionStep, FanInStep, FanOutStep}

Range(seq) == {seq[i] : i \in 1..Len(seq)}

InputNames(d)  == {mf.name : mf \in Range(d.input_files)}
References(d)  == {mf.newer_than : mf \in Range(d.input_files)} \ {"none"}
(* The files a step reads or writes; the others are left out of the model. *)
Tracked(d)     == InputNames(d) \cup Range(d.output_files) \cup References(d)

FileNames == {"in1", "in2", "out1", "out2", "ref", "config"}
Times     == 1..MaxTime

NoFile         == [ex |-> FALSE, size |-> 0, mtime |-> 0]
File(size, t)  == [ex |-> TRUE, size |-> size, mtime |-> t]

(***************************************************************************)
(* The configuration: section name -> value, a missing section being       *)
(* NoSection.  The values are the trees of the canonicalizer.              *)
(***************************************************************************)
SectionNames == {"geom", "mesh"}

Entry(k, v) == [key |-> k, val |-> v]
ValueA   == MapNode(<<Entry(StrS("a"), Leaf(IntS(1))), Entry(StrS("b"), Leaf(IntS(2)))>>)
ValueAr  == MapNode(<<Entry(StrS("b"), Leaf(IntS(2))), Entry(StrS("a"), Leaf(IntS(1)))>>)
ValueB   == MapNode(<<Entry(StrS("a"), Leaf(IntS(1))), Entry(StrS("b"), Leaf(IntS(3)))>>)
ValueFK  == MapNode(<<Entry(FloatS(15 * FloatUnit), Leaf(IntS(1)))>>)

NoSection     == [present |-> FALSE, v |-> EmptyMap]
Section(v)    == [present |-> TRUE, v |-> v]

SectionValues(name) ==
    IF name = "geom"
    THEN {NoSection, Section(EmptyMap), Section(ValueA), Section(ValueAr),
          Section(ValueB), Section(ValueFK)}
    ELSE {NoSection, Section(ValueA), Section(ValueFK)}

(* The configs a step can load: the sections it does not depend on are     *)
(* never read and are left out (NoSection).                                *)
ConfigTable ==
    [d \in Steps |->
        {c \in [SectionNames -> UNION {SectionValues(n) : n \in SectionNames}] :
            \A n \in SectionNames :
                IF n \in Range(d.dependent_sections) THEN c[n] \in SectionValues(n)
                ELSE c[n] = NoSection}]

Configs(d) == ConfigTable[d]

(* hash_config_section on the section values of the model, computed once.  *)
HashTable ==
    [v \in {EmptyMap} \cup {sv.v : sv \in UNION {SectionValues(n) : n \in SectionNames}} |->
        hash_config_section(v)]

SectionHash(v) == HashTable[v]

ConfigGet_NoDefault(cfg, section) ==
    IF cfg[section].present THEN cfg[section].v ELSE ValueA

(* self.config.get(section, {}) *)
ConfigGet(cfg, section) == IF cfg[section].present THEN cfg[section].v ELSE EmptyMap

(***************************************************************************)
(* SectionState: section name -> digest, NoEntry where the mapping has no  *)
(* entry.  The state file is NoStateFile or such a mapping.                *)
(***************************************************************************)
NoEntry       == [has |-> FALSE, h |-> <<>>]
Recorded(h)   == [has |-> TRUE, h |-> h]
EmptyStates   == [k \in SectionNames |-> NoEntry]
NoStateFile   == [exists |-> FALSE, map |-> EmptyStates]
StateFile(m)  == [exists |-> TRUE, map |-> m]

(* The digests a state file written earlier can hold for a section.        *)
KnownEntries(k) ==
    {NoEntry} \cup
    {Recorded(SectionHash(sv.v).h) : sv \in {x \in SectionValues(k) : SectionHash(x.v).ok}}

(* The state files a step can find in its working directory.  MeshStep     *)
(* shares its directory with a step that depends on "mesh" (as P1Step and  *)
(* P2Step share theirs in examples/demo_workflow.py), so its state file    *)
(* can hold an entry for that section too.                                 *)
StateMapTable ==
    [d \in Steps |->
        {m \in [SectionNames -> UNION {KnownEntries(k) : k \in SectionNames}] :
            \A k \in SectionNames :
                IF k \in Range(d.dependent_sections) \/ d = MeshStep
                THEN m[k] \in KnownEntries(k)
                ELSE m[k] = NoEntry}]

StateMaps(d) == StateMapTable[d]

(* load_previous_states *)
load_previous_states(sf) == IF sf.exists THEN sf.map ELSE EmptyStates

(***************************************************************************)
(* utils/file_utils.py and models/state.py, on the files fs.               *)
(***************************************************************************)
get_file_mtime(fs, path) == IF fs[path].ex THEN fs[path].mtime ELSE 0

is_file_non_empty(fs, path) == fs[path].ex /\ fs[path].size > 0

check_exists(fs, mf) == fs[mf.name].ex

check_non_empty(fs, mf) == ~(mf.non_empty /\ ~is_file_non_empty(fs, mf.name))

check_newer_than_NotOlder(fs, mf) ==
    mf.newer_than # "none" =>
        ~(get_file_mtime(fs, mf.name) < get_file_mtime(fs, mf.newer_than))

(* newer_than "config" is self.config_path, the file "config".             *)
check_newer_than(fs, mf) ==
    mf.newer_than # "none" =>
        ~(get_file_mtime(fs, mf.name) <= get_file_mtime(fs, mf.newer_than))

FileState_ExistsOnly(fs, mf) == check_exists(fs, mf)

(* FileState(path, non_empty, newer_than) raises no ValidationError.       *)
FileState(fs, mf) ==
    /\ check_exists(fs, mf)
    /\ check_non_empty(fs, mf)
    /\ check_newer_than(fs, mf)

(***************************************************************************)
(* Statesman.needs_run, on the step d, the files fs, the config cfg and    *)
(* the section state prev: "yes" (True), "no" (False) or "raise" (the      *)
(* ValueError of hash_config_section, which needs_run does not catch).     *)
(***************************************************************************)
InputInvalid(d, fs) == \E mf \in Range(d.input_files) : ~FileState(fs, mf)

OutputBad_MissingOnly(fs, out) == ~fs[out].ex

(* not out_path.exists() or out_path.stat().st_size == 0 *)
OutputBad(fs, out) == ~fs[out].ex \/ fs[out].size = 0

OutputMissing(d, fs) == \E out \in Range(d.output_files) : OutputBad(fs, out)

InputNewer_EveryOutput(d, fs) ==
    \E mf \in Range(d.input_files) : \A out \in Range(d.output_files) :
        get_file_mtime(fs, mf.name) > get_file_mtime(fs, out)

InputNewer(d, fs) ==
    \E out \in Range(d.output_files), mf \in Range(d.input_files) :
        get_file_mtime(fs, mf.name) > get_file_mtime(fs, out)

has_section_changed_NoCompare(cfg, prev, section) ==
    LET current_hash  == SectionHash(ConfigGet(cfg, section))
        previous_hash == prev[section]
    IN  IF ~current_hash.ok THEN "raise"
        ELSE IF previous_hash.has THEN "no"
        ELSE "yes"

(* has_section_changed: "yes", "no", or "raise" when the section holds a   *)
(* float key.                                                              *)
has_section_changed(cfg, prev, section) ==
    LET current_hash  == SectionHash(ConfigGet(cfg, section))
        previous_hash == prev[section]
    IN  IF ~current_hash.ok THEN "raise"
        ELSE IF previous_hash.has /\ previous_hash.h = current_hash.h THEN "no"
        ELSE "yes"

(* for section in self.dependent_sections: the first section that has      *)
(* changed, or that cannot be hashed, ends the loop.                       *)
RECURSIVE SectionsChanged(_, _, _)
SectionsChanged(sections, cfg, prev) ==
    IF sections = <<>> THEN "no"
    ELSE LET r == has_section_changed(cfg, prev, Head(sections))
         IN  IF r = "no" THEN SectionsChanged(Tail(sections), cfg, prev) ELSE r

needs_run_SectionsFirst(d, fs, cfg, prev) ==
    IF SectionsChanged(d.dependent_sections, cfg, prev) # "no"
    THEN SectionsChanged(d.dependent_sections, cfg, prev)
    ELSE IF InputInvalid(d, fs) \/ OutputMissing(d, fs) \/ InputNewer(d, fs) THEN "yes"
    ELSE "no"

needs_run(d, fs, cfg, prev) ==
    IF InputInvalid(d, fs) THEN "yes"
    ELSE IF OutputMissing(d, fs) THEN "yes"
    ELSE IF InputNewer(d, fs) THEN "yes"
    ELSE SectionsChanged(d.dependent_sections, cfg, prev)

(* needs_run() of the instance in the current state.                       *)
NeedsRun == needs_run(desc, files, config, previous_states)

(***************************************************************************)
(* Statesman.run(force) with the domain callback cb: cb.writes says, for   *)
(* each declared output, whether _execute leaves it alone ("keep"), writes *)
(* it empty ("empty") or with content ("full"); cb.config is self.config   *)
(* when _execute returns; cb.raises says whether _execute raises.          *)
(***************************************************************************)
(* self.config when _execute returns: as it was, or with every dependent   *)
(* section replaced by ValueA, or by ValueFK.                              *)
CallbackConfigs(d) ==
    {c \in Configs(d) :
        \/ \A n \in Range(d.dependent_sections) : c[n] = Section(ValueA)
        \/ \A n \in Range(d.dependent_sections) : c[n] = Section(ValueFK)}

Callbacks(d, cfg) ==
    [writes : [Range(d.output_files) -> {"keep", "empty", "full"}],
     config : {cfg} \cup CallbackConfigs(d),
     raises : BOOLEAN]

(* The config that current_hashes is taken from: run() computes it before  *)
(* self._execute(), from self.config as it is then.                       *)
HashedConfig_After(before, after) == after

HashedConfig(before, after) == before

(* current_hashes = {section: hash_config_section(...)}                    *)
CurrentHashes(d, cfg) ==
    [k \in Range(d.dependent_sections) |-> SectionHash(ConfigGet(cfg, k))]

HashesRaise_Never(d, cfg) == FALSE

HashesRaise(d, cfg) == \E k \in Range(d.dependent_sections) : ~CurrentHashes(d, cfg)[k].ok

(* The files after _execute.                                               *)
FilesAfter(d, fs, cb, now) ==
    [f \in FileNames |->
        IF f \in Range(d.output_files) /\ cb.writes[f] # "keep"
        THEN File(IF cb.writes[f] = "full" THEN 1 ELSE 0, now)
        ELSE fs[f]]

SavedStates_Fresh(d, prev, hashes) ==
    [k \in SectionNames |->
        IF k \in Range(d.dependent_sections) THEN Recorded(hashes[k].h) ELSE NoEntry]

(* for section in self.dependent_sections: self.save_state(section, ...)   *)
SavedStates(d, prev, hashes) ==
    [k \in SectionNames |->
        IF k \in Range(d.dependent_sections) THEN Recorded(hashes[k].h) ELSE prev[k]]

(* if force or self.needs_run() *)
Decision_Always(force, nr) == "execute"

Decision_NoForce(force, nr) ==
    IF nr = "raise" THEN "raise"
    ELSE IF nr = "yes" THEN "execute"
    ELSE "skip"

Decision(force, nr) ==
    IF force THEN "execute"
    ELSE IF nr = "raise" THEN "raise"
    ELSE IF nr = "yes" THEN "execute"
    ELSE "skip"

(* Whether run() reaches the save_state loop: it follows _execute() and    *)
(* comes before the outputs are validated.                                 *)
SavesState_Always(raised, outputsBad) == TRUE

SavesState_Never(raised, outputsBad) == FALSE

SavesState(raised, outputsBad) == ~raised

(* How run(force) goes before _execute: "skipped", "hash_error" (taking    *)
(* current_hashes, or needs_run, raises) or "execute".                     *)
BeforeExecute(force) ==
    LET dec == Decision(force, NeedsRun)
    IN  IF dec = "skip" THEN "skipped"
        ELSE IF dec = "raise" \/ HashesRaise(desc, config) THEN "hash_error"
        ELSE "execute"

(* How run(force) with callback cb ends, from the current state.           *)
Outcome(force, cb) ==
    LET before == BeforeExecute(force)
    IN  IF before # "execute" THEN before
        ELSE IF cb.raises THEN "callback_error"
        ELSE IF OutputMissing(desc, FilesAfter(desc, files, cb, clock))
             THEN "output_violation"
        ELSE "committed"

Executed == {"callback_error", "output_violation", "committed"}

NoRun == [outcome |-> "none", force |-> FALSE, raised |-> FALSE]
Ran(force, outcome, raised) ==
    [outcome |-> outcome, force |-> force, raised |-> raised]

(* Whether two configs give every dependent section the same digest.       *)
SameSections(d, c1, c2) ==
    \A k \in Range(d.dependent_sections) :
        SectionHash(ConfigGet(c1, k)) = SectionHash(ConfigGet(c2, k))

(* The scenario of one step instance: "start"; "ran" after a first run()   *)
(* that executed and committed; "edited" after the config was then changed *)
(* to a different, hashable value and reloaded; "reran" after the run()    *)
(* that followed executed and committed; "left" once anything else has     *)
(* happened.  The callback of the scenario leaves self.config alone.       *)
ScenarioAfterRun(force, out, cfg) ==
    IF scenario = "off" THEN "off"
    ELSE IF out = "skipped" THEN scenario
    ELSE IF scenario = "start" /\ out = "committed" /\ cfg = config THEN "ran"
    ELSE IF scenario = "edited" /\ ~force /\ out = "committed" /\ cfg = config THEN "reran"
    ELSE "left"

ScenarioAfterReload(c) ==
    IF scenario = "off" THEN "off"
    ELSE IF /\ scenario = "ran"
            /\ ~HashesRaise(desc, c)
            /\ ~SameSections(desc, c, config)
         THEN "edited"
    ELSE "left"

ScenarioAfterChange == IF scenario = "off" THEN "off" ELSE "left"

(* run(force) on the paths that do not reach _execute: the step is not     *)
(* stale, or hashing a dependent section raises.                           *)
RunWithoutExecute(force) ==
    /\ BeforeExecute(force) # "execute"
    /\ last' = Ran(force, BeforeExecute(force), FALSE)
    /\ scenario' = ScenarioAfterRun(force, BeforeExecute(force), config)
    /\ UNCHANGED <<desc, files, clock, config, previous_states, state_file, hvars, save, duo>>

(* run(force) on the path through _execute, with callback cb.              *)
RunExecute(force, cb) ==
    LET out == Outcome(force, cb)
        after == FilesAfter(desc, files, cb, clock)
        saves == /\ SavesState(cb.raises, OutputMissing(desc, after))
                 /\ desc.dependent_sections # <<>>
        saved == SavedStates(desc, previous_states,
                             CurrentHashes(desc, HashedConfig(config, cb.config)))
    IN  /\ files' = after
        /\ config' = cb.config
        /\ out \in Executed
        /\ last' = Ran(force, out, cb.raises)
        /\ scenario' = ScenarioAfterRun(force, out, cb.config)
        /\ previous_states' = IF saves THEN saved ELSE previous_states
        /\ state_file' = IF saves THEN StateFile(saved) ELSE state_file
        /\ UNCHANGED <<desc, clock, hvars, save, duo>>

(***************************************************************************)
(* The environment: time passes, files of the working directory are        *)
(* written or removed, the config file is rewritten and the caller reloads *)
(* the config (sm.config = sm.load_config()).                              *)
(***************************************************************************)
Tick ==
    /\ clock < MaxTime
    /\ clock' = clock + 1
    /\ UNCHANGED <<desc, files, config, previous_states, state_file, last, scenario, hvars, save, duo>>

(* The sizes a write gives a file: only the size of a declared input or    *)
(* output is ever read.                                                    *)
Sizes(d, f) == IF f \in InputNames(d) \cup Range(d.output_files) THEN {0, 1} ELSE {1}

WriteFile(f, size) ==
    /\ f \in Tracked(desc)
    /\ size \in Sizes(desc, f)
    /\ files' = [files EXCEPT ![f] = File(size, clock)]
    /\ last' = NoRun
    /\ scenario' = ScenarioAfterChange
    /\ UNCHANGED <<desc, clock, config, previous_states, state_file, hvars, save, duo>>

DeleteFile(f) ==
    /\ f \in Tracked(desc) \ {"config"}
    /\ files[f].ex
    /\ files' = [files EXCEPT ![f] = NoFile]
    /\ last' = NoRun
    /\ scenario' = ScenarioAfterChange
    /\ UNCHANGED <<desc, clock, config, previous_states, state_file, hvars, save, duo>>

ReloadConfig(c) ==
    /\ c # config
    /\ config' = c
    /\ last' = NoRun
    /\ scenario' = ScenarioAfterReload(c)
    /\ UNCHANGED <<desc, files, clock, previous_states, state_file, hvars, save, duo>>

(* config_path.write_text(...) followed by self.config = load_config():    *)
(* the config file takes the current time (for a step that reads it) and   *)
(* the config its new content.                                             *)
RewriteConfig(c) ==
    /\ c # config
    /\ config' = c
    /\ files' = IF "config" \in Tracked(desc)
                THEN [files EXCEPT !["config"] = File(1, clock)]
                ELSE files
    /\ last' = NoRun
    /\ scenario' = ScenarioAfterReload(c)
    /\ UNCHANGED <<desc, clock, previous_states, state_file, hvars, save, duo>>

(***************************************************************************)
(* Statesman.save_state(section, hash_value), step by step as the file     *)
(* system sees it: open(self.state_file, "w") truncates the file, the dump *)
(* reaches the file in one or more pieces, the last piece closes it.  The  *)
(* process can die while the file is open, and another process can read    *)
(* the file at any moment.  save.keys is the insertion order of the keys   *)
(* of previous_states, save.done the number of entries that have reached   *)
(* the file, save.old the mapping the file held before the call,           *)
(* save.seen what a reader has last read since the call began.             *)
(***************************************************************************)
NoRead == [read |-> FALSE, map |-> EmptyStates]
Read(m) == [read |-> TRUE, map |-> m]

SaveIdle(keys) ==
    [pc |-> "idle", keys |-> keys, done |-> 0, old |-> EmptyStates, seen |-> NoRead]

(* The orders in which a loaded mapping can hold its keys.                 *)
KeyOrders(m) ==
    LET held == {k \in SectionNames : m[k].has}
    IN  {q \in UNION {[1..n -> held] : n \in 0..Cardinality(held)} :
            Len(q) = Cardinality(held) /\ Range(q) = held}

(* The text of the first n entries of the mapping m, read back.            *)
Written(m, keys, n) ==
    [k \in SectionNames |-> IF \E i \in 1..n : keys[i] = k THEN m[k] ELSE NoEntry]

(* The digests save_state can be handed for a section.                     *)
Digests(k) == {e.h : e \in KnownEntries(k) \ {NoEntry}}

(* self.previous_states[section] = hash_value; open(self.state_file, "w") *)
SaveOpen(section, h) ==
    /\ save.pc = "idle"
    /\ section \in Range(desc.dependent_sections)
    /\ h \in Digests(section)
    /\ previous_states' = [previous_states EXCEPT ![section] = Recorded(h)]
    /\ state_file' = StateFile(EmptyStates)
    /\ save' = [save EXCEPT !.pc = "open", !.done = 0, !.seen = NoRead,
                            !.old = load_previous_states(state_file),
                            !.keys = IF section \in Range(@) THEN @
                                     ELSE Append(@, section)]
    /\ UNCHANGED <<desc, files, clock, config, last, scenario, hvars, duo>>

(* yaml.YAML().dump(self.previous_states, f): the next n entries reach the *)
(* file; the file is closed after the last one.                            *)
SaveDump(n) ==
    /\ save.pc = "open"
    /\ n >= 1
    /\ save.done + n <= Len(save.keys)
    /\ state_file' = StateFile(Written(previous_states, save.keys, save.done + n))
    /\ save' = [save EXCEPT !.done = @ + n,
                            !.pc = IF save.done + n = Len(save.keys) THEN "idle" ELSE "open"]
    /\ UNCHANGED <<desc, files, clock, config, previous_states, last, scenario, hvars, duo>>

(* The process dies while the file is open: what has not reached the file  *)
(* is lost.                                                                *)
SaveCrash ==
    /\ save.pc = "open"
    /\ save' = [save EXCEPT !.pc = "crashed"]
    /\ UNCHANGED <<desc, files, clock, config, previous_states, state_file, last,
                   scenario, hvars, duo>>

(* Another process loads the state file (load_previous_states).            *)
ReadStateFile ==
    /\ save.seen # Read(load_previous_states(state_file))
    /\ save' = [save EXCEPT !.seen = Read(load_previous_states(state_file))]
    /\ UNCHANGED <<desc, files, clock, config, previous_states, state_file, last,
                   scenario, hvars, duo>>

(***************************************************************************)
(* PairSpec: two step instances with disjoint dependent sections share one *)
(* working directory, hence one state file.  Their run() calls never       *)
(* overlap: each is one step of the model.                                 *)
(***************************************************************************)
Instances == {"A", "B"}

(* A step on "mesh" with an output of its own, beside MeshStep on "geom".  *)
RemeshStep == Statesman(<<>>, <<"out2">>, <<"mesh">>)

StepOf(i) == IF i = "A" THEN MeshStep ELSE RemeshStep

(* No instance is constructed.                                             *)
DuoIdle ==
    [built           |-> [i \in Instances |-> FALSE],
     config          |-> [i \in Instances |-> [n \in SectionNames |-> NoSection]],
     previous_states |-> [i \in Instances |-> EmptyStates],
     committed       |-> [i \in Instances |-> EmptyStates]]

(* __init__: self.config = self.load_config();                             *)
(* self.previous_states = self.load_previous_states()                      *)
Construct(i) ==
    /\ ~duo.built[i]
    /\ duo' = [duo EXCEPT !.built[i] = TRUE,
                          !.config[i] = config,
                          !.previous_states[i] = load_previous_states(state_file)]
    /\ UNCHANGED <<desc, files, clock, config, previous_states, state_file, last,
                   scenario, save, hvars>>

(* What _execute of an instance can do: write its outputs, raise.          *)
PairCallbacks(d) ==
    [writes : [Range(d.output_files) -> {"keep", "empty", "full"}],
     raises : BOOLEAN]

(* run(force) of instance i, from the decision to the validation of the    *)
(* outputs; a run that is skipped, or that raises on a float key, changes  *)
(* nothing.                                                                *)
PairRun(i, force, cb) ==
    LET d        == StepOf(i)
        mine     == duo.previous_states[i]
        nr       == needs_run(d, files, duo.config[i], mine)
        executes == /\ Decision(force, nr) = "execute"
                    /\ ~HashesRaise(d, duo.config[i])
        after    == FilesAfter(d, files, cb, clock)
        bad      == OutputMissing(d, after)
        saves    == SavesState(cb.raises, bad)
        saved    == SavedStates(d, mine, CurrentHashes(d, duo.config[i]))
        commits  == ~cb.raises /\ ~bad
    IN  /\ duo.built[i]
        /\ executes
        /\ files' = after
        /\ state_file' = IF saves THEN StateFile(saved) ELSE state_file
        /\ duo' = [duo EXCEPT
                      !.previous_states[i] = IF saves THEN saved ELSE @,
                      !.committed[i] =
                          IF commits
                          THEN [k \in SectionNames |->
                                   IF k \in Range(d.dependent_sections)
                                   THEN saved[k] ELSE NoEntry]
                          ELSE @]
        /\ UNCHANGED <<desc, clock, config, previous_states, last, scenario, save, hvars>>

(* No section is being hashed on its own in Spec.                          *)
HashIdle ==
    /\ tree = EmptyMap
    /\ tree2 = EmptyMap
    /\ edit = "none"
    /\ fa = 0
    /\ fb = 0
    /\ digest = hash_config_section(EmptyMap)
    /\ digest2 = hash_config_section(EmptyMap)

(* Statesman(config_path): the config file exists, the state file may.     *)
StepInit ==
    /\ HashIdle
    /\ desc \in Steps
    /\ clock = 1
    /\ files = [f \in FileNames |-> IF f = "config" THEN File(1, 1) ELSE NoFile]
    /\ config \in Configs(desc)
    /\ state_file \in {NoStateFile} \cup {StateFile(m) : m \in StateMaps(desc)}
    /\ previous_states = load_previous_states(state_file)
    /\ last = NoRun

Init ==
    /\ StepInit
    /\ scenario = "off"
    /\ save = SaveIdle(<<>>)
    /\ duo = DuoIdle

(* The scenario is that of a step with no inputs, one output and one       *)
(* dependent section.                                                      *)
ScenarioInit ==
    /\ StepInit
    /\ desc.input_files = <<>>
    /\ Len(desc.output_files) = 1
    /\ Len(desc.dependent_sections) = 1
    /\ scenario = "start"
    /\ save = SaveIdle(<<>>)
    /\ duo = DuoIdle

SaveInit ==
    /\ StepInit
    /\ scenario = "off"
    /\ save \in {SaveIdle(q) : q \in KeyOrders(previous_states)}
    /\ duo = DuoIdle

SaveNext ==
    \/ \E section \in SectionNames, h \in UNION {Digests(k) : k \in SectionNames} :
            SaveOpen(section, h)
    \/ \E n \in 1..Cardinality(SectionNames) : SaveDump(n)
    \/ SaveCrash
    \/ ReadStateFile

(* The config file holds both sections; the single-instance variables     *)
(* stay idle.                                                              *)
PairInit ==
    /\ HashIdle
    /\ desc = TwoSectionStep
    /\ clock = 1
    /\ files = [f \in FileNames |-> IF f = "config" THEN File(1, 1) ELSE NoFile]
    /\ config \in Configs(TwoSectionStep)
    /\ state_file \in {NoStateFile} \cup {StateFile(m) : m \in StateMaps(TwoSectionStep)}
    /\ previous_states = EmptyStates
    /\ last = NoRun
    /\ scenario = "off"
    /\ save = SaveIdle(<<>>)
    /\ duo = DuoIdle

PairNext ==
    \/ \E i \in Instances : Construct(i)
    \/ \E i \in Instances, force \in BOOLEAN :
          \E cb \in PairCallbacks(StepOf(i)) : PairRun(i, force, cb)

Next ==
    \/ \E force \in BOOLEAN : RunWithoutExecute(force)
    \/ \E force \in BOOLEAN, cb \in Callbacks(desc, config) : RunExecute(force, cb)
    \/ Tick
    \/ \E f \in FileNames, size \in {0, 1} : WriteFile(f, size)
    \/ \E f \in FileNames : DeleteFile(f)
    \/ \E c \in Configs(desc) : ReloadConfig(c)
    \/ \E c \in Configs(desc) : RewriteConfig(c)

(***************************************************************************)
(* HashSpec: the trees hash_config_section is applied to.                  *)
(***************************************************************************)
RECURSIVE Size(_)
RECURSIVE SizeKids(_)
SizeKids(kids) ==
    IF kids = <<>> THEN 0 ELSE 1 + Size(Head(kids).val) + SizeKids(Tail(kids))
Size(d) == SizeKids(d.kids)

RECURSIVE Paths(_)
Paths(d) ==
    {<<>>} \cup UNION {{<<i>> \o p : p \in Paths(d.kids[i].val)} : i \in 1..Len(d.kids)}

RECURSIVE NodeAt(_, _)
NodeAt(d, path) ==
    IF path = <<>> THEN d ELSE NodeAt(d.kids[Head(path)].val, Tail(path))

RECURSIVE ReplaceAt(_, _, _)
ReplaceAt(d, path, new) ==
    IF path = <<>> THEN new
    ELSE [d EXCEPT !.kids[Head(path)].val = ReplaceAt(@, Tail(path), new)]

RECURSIVE FloatKeyed(_)
FloatKeyed(d) ==
    \E i \in 1..Len(d.kids) : d.kids[i].key.t = "float" \/ FloatKeyed(d.kids[i].val)

(* Keys and values the trees are built from: the int 1 and the str "1"     *)
(* have the same text, 1.5 is a float key.                                 *)
TreeKeys   == {IntS(1), StrS("1"), StrS("a"), FloatS(15 * FloatUnit)}
TreeValues == {Leaf(IntS(1)), Leaf(FloatS(0)), EmptyMap, ListNode(<<>>)}
FarApart   == 10000000 * FloatUnit       \* 1e-3
FloatValues == {0, 4, 6, FloatUnit, FarApart}

(* The step engine takes no part in HashSpec.                              *)
StepIdle ==
    /\ desc = MeshStep
    /\ clock = 1
    /\ files = [f \in FileNames |-> IF f = "config" THEN File(1, 1) ELSE NoFile]
    /\ config = [n \in SectionNames |-> NoSection]
    /\ state_file = NoStateFile
    /\ previous_states = EmptyStates
    /\ last = NoRun
    /\ scenario = "off"
    /\ save = SaveIdle(<<>>)
    /\ duo = DuoIdle

HashInit ==
    /\ StepIdle
    /\ tree = EmptyMap
    /\ tree2 = EmptyMap
    /\ edit = "none"
    /\ fa = 0
    /\ fb = 0
    /\ digest = hash_config_section(EmptyMap)
    /\ digest2 = hash_config_section(EmptyMap)

(* Every change of a tree is followed by hashing both trees.               *)
HashBoth ==
    /\ digest' = hash_config_section(tree')
    /\ digest2' = hash_config_section(tree2')

(* The config grows by one map entry (a key the map does not hold yet) or  *)
(* one list item; a tree that holds a float key is not grown further.      *)
AddEntry(path, k, v) ==
    /\ edit = "none"
    /\ Size(tree) < MaxNodes
    /\ ~FloatKeyed(tree)
    /\ LET d == NodeAt(tree, path)
       IN  /\ d.kind \in {"map", "list"}
           /\ d.kind = "map" => \A i \in 1..Len(d.kids) : d.kids[i].key # k
           /\ LET e == [key |-> IF d.kind = "map" THEN k ELSE NoKey, val |-> v]
                  t == ReplaceAt(tree, path, [d EXCEPT !.kids = Append(@, e)])
              IN  tree' = t /\ tree2' = t
    /\ HashBoth
    /\ UNCHANGED <<edit, fa, fb, svars>>

(* The same config written with two neighbouring entries of one map, at    *)
(* any depth, the other way round.                                         *)
Reorder(path, i) ==
    /\ edit \in {"none", "reorder"}
    /\ LET d == NodeAt(tree2, path)
       IN  /\ d.kind = "map"
           /\ i + 1 <= Len(d.kids)
           /\ tree2' = ReplaceAt(tree2, path,
                 [d EXCEPT !.kids = [@ EXCEPT ![i] = d.kids[i + 1], ![i + 1] = d.kids[i]]])
    /\ edit' = "reorder"
    /\ UNCHANGED <<tree, fa, fb, svars>>
    /\ HashBoth

(* One float of the config has the value a in tree and b in tree2.         *)
SetFloat(path, a, b) ==
    /\ edit = "none"
    /\ a < b
    /\ Size(tree) <= MaxFloatNodes
    /\ LET d == NodeAt(tree, path)
       IN  d.kind = "scalar" /\ d.sc.t = "float"
    /\ tree' = ReplaceAt(tree, path, Leaf(FloatS(a)))
    /\ tree2' = ReplaceAt(tree2, path, Leaf(FloatS(b)))
    /\ edit' = "float" /\ fa' = a /\ fb' = b
    /\ HashBoth
    /\ UNCHANGED svars

HashNext ==
    \/ \E path \in Paths(tree), k \in TreeKeys, v \in TreeValues : AddEntry(path, k, v)
    \/ \E path \in Paths(tree2), i \in 1..MaxNodes : Reorder(path, i)
    \/ \E path \in Paths(tree), a \in FloatValues, b \in FloatValues : SetFloat(path, a, b)

HashSpec == HashInit /\ [][HashNext]_vars

Spec == Init /\ [][Next]_vars

ScenarioSpec == ScenarioInit /\ [][Next]_vars

SaveSpec == SaveInit /\ [][SaveNext]_vars

PairSpec == PairInit /\ [][PairNext]_vars

(***************************************************************************)
(* Claims about run() and needs_run(), checked under Spec.                 *)
(***************************************************************************)
(* The steps that are a call of run(): a call leaves how it ended in last, *)
(* every change from outside resets last, and of the steps that keep last  *)
(* only Tick advances the clock.  Invoked says that the call reached       *)
(* _execute.                                                               *)
RunStep == clock' = clock /\ last'.outcome # "none"

Invoked == last'.outcome \in Executed

(* C1: whenever run() ends with an output-contract violation, the hash     *)
(* recorded for every dependent section, in memory and on disk, is what it *)
(* was before the call.                                                    *)
C1_NoSaveOnViolation ==
    [][(last'.outcome = "output_violation" /\ RunStep) =>
          /\ previous_states' = previous_states
          /\ state_file' = state_file]_vars

(* C2, as stated: after a run() that returned without raising, and with    *)
(* nothing changed since, needs_run() returns false.                       *)
C2_FreshAfterReturn ==
    last.outcome \in {"skipped", "committed"} => NeedsRun = "no"

(* C2, amended: a run() that returned without raising leaves needs_run()   *)
(* false when, as the call ends, every declared input is valid, no input   *)
(* is newer than any output, and every dependent section of self.config    *)
(* hashes as it did when the call began.                                   *)
C2_FreshAfterCleanReturn ==
    [][(/\ last'.outcome \in {"skipped", "committed"}
        /\ RunStep
        /\ ~InputInvalid(desc, files')
        /\ ~InputNewer(desc, files')
        /\ SameSections(desc, config, config')) => NeedsRun' = "no"]_vars

C2_Witness ==
    /\ last.outcome = "committed"
    /\ desc.input_files # <<>>
    /\ desc.dependent_sections # <<>>
    /\ NeedsRun = "no"

(* C3, as stated: after a run(force=false) that invoked the callback, and  *)
(* with nothing changed since, no further run(force=false) invokes it.     *)
C3_AtMostOnce ==
    [][(last.outcome \in Executed /\ ~last.force) =>
          ~(RunStep /\ ~last'.force /\ Invoked)]_vars

(* C3, amended: after a run(force=false) that invoked the callback, and    *)
(* with nothing changed since, the next run(force=false) invokes it again  *)
(* exactly when needs_run() is still true: never once needs_run() is       *)
(* false, always while it is true and the dependent sections can be        *)
(* hashed.                                                                 *)
C3_OnceFresh ==
    [][(last.outcome \in Executed /\ ~last.force) =>
          /\ NeedsRun = "no" => ~(RunStep /\ ~last'.force /\ Invoked)
          /\ (NeedsRun = "yes" /\ ~HashesRaise(desc, config)) =>
                ~(RunStep /\ ~last'.force /\ ~Invoked)]_vars

C3_Witness ==
    /\ last = Ran(FALSE, "committed", FALSE)
    /\ NeedsRun = "no"

(* C4: needs_run() is true whenever a declared output is absent or has     *)
(* size zero, whatever the inputs, the sections and the recorded hashes.   *)
C4_OutputAbsent ==
    (\E out \in Range(desc.output_files) : ~files[out].ex \/ files[out].size = 0)
        => NeedsRun = "yes"

(* An output is empty, the inputs are valid and not newer, and no section  *)
(* has changed.                                                            *)
C4_Witness ==
    /\ \E out \in Range(desc.output_files) : files[out].ex /\ files[out].size = 0
    /\ desc.input_files # <<>>
    /\ ~InputInvalid(desc, files)
    /\ ~InputNewer(desc, files)
    /\ desc.dependent_sections # <<>>
    /\ SectionsChanged(desc.dependent_sections, config, previous_states) = "no"

C7_CallbackError ==
    [][(last'.raised /\ RunStep) =>
          /\ last'.outcome = "callback_error"
          /\ previous_states' = previous_states
          /\ state_file' = state_file]_vars

(* The callback raised while a dependent section had changed.              *)
C7_Witness ==
    /\ last.outcome = "callback_error"
    /\ ~OutputMissing(desc, files)
    /\ SectionsChanged(desc.dependent_sections, config, previous_states) = "yes"

C12_OnlyOwnSections ==
    [][RunStep =>
          /\ \A k \in SectionNames \ Range(desc.dependent_sections) :
                previous_states'[k] = previous_states[k]
          /\ state_file' # state_file =>
                (state_file'.exists /\ state_file'.map = previous_states')]_vars

(* A committed run of a step whose state held an entry of another section. *)
C12_Witness ==
    /\ last.outcome = "committed"
    /\ desc.dependent_sections # <<>>
    /\ \E k \in SectionNames \ Range(desc.dependent_sections) :
          previous_states[k].has /\ state_file.map[k] = previous_states[k]
    /\ \A k \in Range(desc.dependent_sections) :
          state_file.map[k] = Recorded(SectionHash(ConfigGet(config, k)).h)

(* A declared input is touched: its modification time becomes the current  *)
(* time, nothing else changes.                                             *)
TouchInput ==
    \E mf \in Range(desc.input_files) :
        /\ files[mf.name].ex
        /\ files' = [files EXCEPT ![mf.name].mtime = clock]
        /\ UNCHANGED <<config, previous_states, state_file>>

(* C13: from a state in which needs_run() is false, touching a declared    *)
(* input makes needs_run() true when the input is then newer than any one  *)
(* of the declared outputs, and leaves it false when the input is then as  *)
(* old as or older than every output.                                      *)
C13_AllToAll ==
    [][(NeedsRun = "no" /\ TouchInput) =>
          NeedsRun' =
              IF \E mf \in Range(desc.input_files), out \in Range(desc.output_files) :
                     files'[mf.name].mtime > files'[out].mtime
              THEN "yes" ELSE "no"]_vars

(* An input newer than one output and not newer than another, with the     *)
(* inputs valid and the outputs in place.                                  *)
C13_Witness ==
    /\ last = NoRun
    /\ ~InputInvalid(desc, files)
    /\ ~OutputMissing(desc, files)
    /\ \E mf \in Range(desc.input_files) :
          /\ \E out \in Range(desc.output_files) : files[mf.name].mtime > files[out].mtime
          /\ \E out \in Range(desc.output_files) : files[mf.name].mtime = files[out].mtime
    /\ NeedsRun = "yes"

(* c2 is c1 with the entries of some sections written in another order.    *)
Reordered(c1, c2) ==
    /\ c1 # c2
    /\ \A k \in SectionNames :
          /\ c1[k].present = c2[k].present
          /\ c1[k].v.kind = c2[k].v.kind
          /\ Len(c1[k].v.kids) = Len(c2[k].v.kids)
          /\ Range(c1[k].v.kids) = Range(c2[k].v.kids)

(* C14: for a step with an input required newer than the config file and  *)
(* with needs_run() false, rewriting the config file with the keys of a    *)
(* dependent section in another order and reloading it leaves needs_run()  *)
(* false.                                                                  *)
C14_ReorderKeepsFresh ==
    [][(/\ NeedsRun = "no"
        /\ \E mf \in Range(desc.input_files) : mf.newer_than = "config"
        /\ Reordered(config, config')
        /\ RewriteConfig(config')) => NeedsRun' = "no"]_vars

(* C16: after a run(), forced or not, that failed because the callback     *)
(* raised, and with nothing changed since, the next run(force=false)       *)
(* invokes the callback again (the dependent sections being hashable).     *)
C16_RetryAfterCallbackError ==
    (last.outcome = "callback_error" /\ ~HashesRaise(desc, config)) =>
        BeforeExecute(FALSE) = "execute"

(* C17: a run(force=false) that finds needs_run() false does not invoke    *)
(* the callback and leaves the section state, in memory and on disk, and   *)
(* all files unchanged; and the section state, in memory or on disk,       *)
(* changes only in a run() that ends committed.                            *)
C17_DecisionHasNoEffect ==
    [][/\ (RunStep /\ ~last'.force /\ NeedsRun = "no") =>
              /\ ~Invoked
              /\ UNCHANGED <<files, config, previous_states, state_file>>
       /\ (previous_states' # previous_states \/ state_file' # state_file) =>
              (RunStep /\ last'.outcome = "committed")]_vars

MTime(f) == IF files[f].ex THEN files[f].mtime ELSE 0

InputsFresh ==
    \A mf \in Range(desc.input_files) :
        /\ files[mf.name].ex
        /\ mf.non_empty => files[mf.name].size > 0
        /\ mf.newer_than # "none" => MTime(mf.name) > MTime(mf.newer_than)

OutputsFresh ==
    \A out \in Range(desc.output_files) : files[out].ex /\ files[out].size > 0

NoInputNewer ==
    \A mf \in Range(desc.input_files), out \in Range(desc.output_files) :
        MTime(mf.name) <= MTime(out)

SectionFresh(k) ==
    /\ SectionHash(ConfigGet(config, k)).ok
    /\ previous_states[k] = Recorded(SectionHash(ConfigGet(config, k)).h)

AllFresh ==
    /\ InputsFresh /\ OutputsFresh /\ NoInputNewer
    /\ \A k \in Range(desc.dependent_sections) : SectionFresh(k)

FilesFresh == InputsFresh /\ OutputsFresh /\ NoInputNewer

(* No hash is recorded for the section, or the recorded hash differs from  *)
(* the hash of the section's current value.                                *)
Drifted(k) ==
    \/ ~previous_states[k].has
    \/ /\ SectionHash(ConfigGet(config, k)).ok
       /\ previous_states[k].h # SectionHash(ConfigGet(config, k)).h

(* The first dependent section, in declared order, that is not fresh holds *)
(* a float key.                                                            *)
InvalidKeyFirst ==
    \E i \in 1..Len(desc.dependent_sections) :
        /\ ~SectionHash(ConfigGet(config, desc.dependent_sections[i])).ok
        /\ \A j \in 1..(i - 1) : SectionFresh(desc.dependent_sections[j])

(* The config with every absent dependent section made an empty map and    *)
(* every empty-map dependent section made absent.                          *)
SwapAbsent(cfg) ==
    [n \in SectionNames |->
        IF n \notin Range(desc.dependent_sections) THEN cfg[n]
        ELSE IF cfg[n] = NoSection THEN Section(EmptyMap)
        ELSE IF cfg[n] = Section(EmptyMap) THEN NoSection
        ELSE cfg[n]]

CommitsPreExecutionHashes ==
    \A k \in Range(desc.dependent_sections) :
        /\ previous_states'[k] = Recorded(SectionHash(ConfigGet(config, k)).h)
        /\ state_file'.exists /\ state_file'.map[k] = previous_states'[k]

FloatKeyedSection ==
    \E k \in Range(desc.dependent_sections) : ~SectionHash(ConfigGet(config, k)).ok

C23_BothCommitsPersist ==
    (\A i \in Instances :
        \E k \in Range(StepOf(i).dependent_sections) : duo.committed[i][k].has)
    => /\ state_file.exists
       /\ \A i \in Instances :
             \A k \in Range(StepOf(i).dependent_sections) :
                 state_file.map[k] = duo.committed[i][k]

(***************************************************************************)
(* The claim about the writing of the state file, checked under SaveSpec.  *)
(***************************************************************************)
(* C15: whoever reads the state file during a save, or after a crash in    *)
(* the middle of one, sees the complete mapping of before the save or the  *)
(* complete new mapping, never an empty, truncated or mixed one.           *)
C15_OldOrNew ==
    (save.pc # "idle" /\ save.seen.read) =>
        save.seen.map \in {save.old, previous_states}

(***************************************************************************)
(* The claim about the run / edit config / re-run scenario, checked under  *)
(* ScenarioSpec.                                                           *)
(***************************************************************************)
(* C6: for a step with no inputs, one output and one dependent section:    *)
(* after a first run() that executes and commits, needs_run() is false;    *)
(* after the section is then changed to a value with a different hash and  *)
(* the config reloaded, needs_run() is true and the following run()        *)
(* invokes the callback; after that run() the hash stored for the section, *)
(* in memory and on disk, is the hash of the new value and needs_run() is  *)
(* false.                                                                  *)
C6_Scenario ==
    /\ scenario = "ran" => NeedsRun = "no"
    /\ scenario = "edited" => (NeedsRun = "yes" /\ BeforeExecute(FALSE) = "execute")
    /\ scenario = "reran" =>
          /\ \A k \in Range(desc.dependent_sections) :
                /\ previous_states[k] = Recorded(SectionHash(ConfigGet(config, k)).h)
                /\ state_file.exists /\ state_file.map[k] = previous_states[k]
          /\ NeedsRun = "no"

C6_Witness == scenario = "reran"

(***************************************************************************)
(* Claims about hash_config_section, checked under HashSpec.               *)
(***************************************************************************)

C9_OrderInvariant ==
    edit = "reorder" => digest2 = digest

(* C10: two trees that differ only in one float have the same digest when  *)
(* the two values differ by less than 1e-10, and different digests when    *)
(* they differ by at least 1e-3.                                           *)
C10_FloatTolerance ==
    edit = "float" =>
        /\ (fb - fa < FloatUnit => digest2 = digest)
        /\ (fb - fa >= FarApart => digest2 # digest)

====
